---- MODULE Spec2Model ----
(***************************************************************************)
(* State-machine model of pallet-ajuna-gameregistry (src/src/lib.rs).      *)
(*                                                                         *)
(* Storage items are the variables GameRegistry, GameQueues and Nonce.     *)
(* Every dispatchable and the on_initialize hook is one atomic action.     *)
(* Storage writes made before an Err is returned are kept: the pallet has  *)
(* no #[transactional] attribute and ack_game writes inside its loop.      *)
(* The template dispatchables do_something / cause_error only touch the    *)
(* unrelated storage value Something and are left out.  Every caller is a  *)
(* signed origin.  Module queues and the matchmaker pallet are modelled    *)
(* from their documented contracts.                                        *)
(***************************************************************************)
EXTENDS Integers, Sequences, FiniteSets, TLC

VARIABLES
    GameRegistry,   \* StorageMap Hash -> GameEntry (function; DOMAIN = stored keys)
    GameQueues,     \* StorageMap GameEngine -> Queue<Hash> (function; DOMAIN = stored keys)
    Nonce,          \* StorageValue u64, as four 16-bit limbs, least significant first
    block_number,   \* frame_system block number
    pool,           \* the matchmaker's queued players (external capability)
    op,             \* name of the most recent call
    result,         \* outcome returned by the most recent call
    events,         \* events deposited by the most recent call
    match_calls,    \* groups returned by try_match, when the most recent call was on_initialize
    dequeued,       \* number of ids the most recent call took off a queue head
    id_log,         \* history: ids produced by generate_random_hash, in order
    ack_log         \* history: ids dequeued by ack_game, in order

vars == <<GameRegistry, GameQueues, Nonce, block_number, pool, op, result, events,
          match_calls, dequeued, id_log, ack_log>>

----------------------------------------------------------------------------
(* Bounds of the model *)

\* the full specification
MaxGames == 2
MaxBlock == 2
\* the specifications of the queue and of the nonce (fewer operations, longer runs)
MaxQueueGames == 3
MaxQueueBlock == 3
\* the specification of the per-block driver
MaxCyclePool == 12

(* Program constants *)

MAX_GAMES_PER_BLOCK == 10
MAX_QUEUE_SIZE == 64
MaxAckBatch == 100
LimbBase == 256 * 256

\* input domains: callers, players and winners; answers of T::Randomness
Accounts == {1, 2}
Seeds == {0, 1}

\* sizes of the groups try_match hands out
GroupSizes == {1, 2}

----------------------------------------------------------------------------
(* Values *)

\* Option::None for Option<AccountId>, and the payload of the non-Finished states
NoAccount == 0

\* GameState<AccountId>
StNone == [tag |-> "None", winner |-> NoAccount]
Waiting == [tag |-> "Waiting", winner |-> NoAccount]
Accepted == [tag |-> "Accepted", winner |-> NoAccount]
Running == [tag |-> "Running", winner |-> NoAccount]
Finished(w) == [tag |-> "Finished", winner |-> w]

\* GameEngine
DefaultEngine == [id |-> 0, version |-> 0]
TheEngine == [id |-> 1, version |-> 1]
OtherEngine == [id |-> 2, version |-> 1]
Engines == {TheEngine, OtherEngine}

\* u64 as four 16-bit limbs, least significant first
U64Zero == <<0, 0, 0, 0>>
U64Max == <<LimbBase - 1, LimbBase - 1, LimbBase - 1, LimbBase - 1>>

RECURSIVE AddOneAt(_, _)
AddOneAt(n, i) ==
    IF i > 4 THEN n
    ELSE IF n[i] = LimbBase - 1 THEN AddOneAt([n EXCEPT ![i] = 0], i + 1)
    ELSE [n EXCEPT ![i] = n[i] + 1]

\* variant: the addition saturates at the maximum
saturating_add_1(n) == IF n = U64Max THEN n ELSE AddOneAt(n, 1)

\* u64::wrapping_add(1)
wrapping_add_1(n) == AddOneAt(n, 1)

\* SCALE encoding of a u64: eight bytes, little endian
encode_u64(n) ==
    [i \in 1..8 |-> IF i % 2 = 1 THEN n[(i + 1) \div 2] % 256
                    ELSE n[i \div 2] \div 256]

\* T::Hashing::hash over the encoded (seed, sender, nonce bytes): an injective
\* hash, its value written as the triple it was computed from
Hash(seed, sender, bytes) == <<seed, sender, bytes>>

\* the all-zero H256 (Default of T::Hash); no generated id equals it
ZeroHash == <<>>

\* GameEntry::default(), the value a ValueQuery map returns for an absent key
DefaultEntry ==
    [id |-> ZeroHash, tee_id |-> NoAccount, game_engine |-> DefaultEngine,
     players |-> <<>>, game_state |-> StNone, state_change |-> <<0, 0, 0, 0>>]

----------------------------------------------------------------------------
(* Storage maps *)

contains_key(map, k) == k \in DOMAIN map

insert(map, k, v) == [x \in DOMAIN map \cup {k} |-> IF x = k THEN v ELSE map[x]]

remove(map, k) == [x \in DOMAIN map \ {k} |-> map[x]]

EmptyMap == [x \in {} |-> 0]

\* getters of the ValueQuery maps
game_registry(reg, k) == IF contains_key(reg, k) THEN reg[k] ELSE DefaultEntry

----------------------------------------------------------------------------
(* Queue<T> of module queues: an ordered sequence of ids *)

QueueNew(size) == <<>>

QueueDefault == <<>>

enqueue(q, item) == Append(q, item)

peek(q) == IF Len(q) = 0 THEN <<>> ELSE <<q[1]>>   \* Option: <<>> is None

dequeue(q) == IF Len(q) = 0 THEN q ELSE Tail(q)

length(q) == Len(q)

RECURSIVE FirstIndex(_, _, _)
FirstIndex(q, item, i) ==
    IF i > Len(q) THEN 0
    ELSE IF q[i] = item THEN i
    ELSE FirstIndex(q, item, i + 1)

queue_remove(q, item) ==
    LET i == FirstIndex(q, item, 1) IN
    IF i = 0 THEN q ELSE SubSeq(q, 1, i - 1) \o SubSeq(q, i + 1, Len(q))

game_queues(qs, k) == IF contains_key(qs, k) THEN qs[k] ELSE QueueDefault

Range(s) == {s[i] : i \in 1..Len(s)}

----------------------------------------------------------------------------
(* The matching capability T::MatchMaker (pallet_matchmaker, external) *)

\* add_queue(sender, bracket): FALSE when the player is already queued
add_queue_admits(p, sender) == sender \notin Range(p)

\* try_match(): the possible answers on pool p, each with the pool it leaves:
\* the empty group, or the first k queued players
try_match(p) ==
    {[group |-> <<>>, pool |-> p]} \cup
    {[group |-> SubSeq(p, 1, k), pool |-> SubSeq(p, k + 1, Len(p))] :
        k \in {g \in GroupSizes : g <= Len(p)}}

----------------------------------------------------------------------------
(* Identifier generation *)

\* encode_and_update_nonce: the encoded old nonce and the stored nonce after it
encode_and_update_nonce(nonce) ==
    [bytes |-> encode_u64(nonce), nonce |-> wrapping_add_1(nonce)]

\* generate_random_hash: seed is what T::Randomness::random(phrase) yields
generate_random_hash(nonce, seed, sender) ==
    LET e == encode_and_update_nonce(nonce) IN
    [hash |-> Hash(seed, sender, e.bytes), nonce |-> e.nonce]

----------------------------------------------------------------------------
(* Session creation *)

create_game_entry(nonce, game_engine, players, seed, bn) ==
    LET g == generate_random_hash(nonce, seed, players[1]) IN
    [entry |-> [id |-> g.hash, tee_id |-> NoAccount, game_engine |-> game_engine,
                players |-> players, game_state |-> Waiting,
                state_change |-> <<bn, 0, 0, 0>>],
     nonce |-> g.nonce]

\* variant: the stored queue is never read back
queue_for_always_new(qs, game_engine) == QueueNew(MAX_QUEUE_SIZE)

\* the queue queue_game enqueues into: the stored one, or a new one
queue_for(qs, game_engine) ==
    IF contains_key(qs, game_engine) THEN game_queues(qs, game_engine)
    ELSE QueueNew(MAX_QUEUE_SIZE)

\* c = [reg, queues, nonce, events, id_log]
queue_game(c, game_engine, players, seed, bn) ==
    LET ce == create_game_entry(c.nonce, game_engine, players, seed, bn)
        game_entry == ce.entry
        game_queue == enqueue(queue_for(c.queues, game_engine), game_entry.id)
    IN [reg |-> insert(c.reg, game_entry.id, game_entry),
        queues |-> insert(c.queues, game_engine, game_queue),
        nonce |-> ce.nonce,
        events |-> Append(c.events, <<"GameQueued", game_engine, game_entry.id>>),
        id_log |-> Append(c.id_log, game_entry.id)]

----------------------------------------------------------------------------
(* on_initialize *)

\* variant: the range is inclusive, 0..=MAX_GAMES_PER_BLOCK
in_loop_range_inclusive(i) == i <= MAX_GAMES_PER_BLOCK

\* the for loop's range 0..MAX_GAMES_PER_BLOCK
in_loop_range(i) == i < MAX_GAMES_PER_BLOCK

\* `if !result.is_empty()`
is_match(group) == Len(group) > 0

\* the game engine every created game gets
cycle_engine == TheEngine

\* The possible outcomes of the loop from iteration i on, one per sequence of
\* answers of try_match: [c, pool, calls]
RECURSIVE RunCycle(_, _, _, _, _, _)
RunCycle(i, c, p, calls, seed, bn) ==
    IF ~in_loop_range(i) THEN {[c |-> c, pool |-> p, calls |-> calls]}
    ELSE UNION {
        IF is_match(m.group)
        THEN RunCycle(i + 1, queue_game(c, cycle_engine, m.group, seed, bn),
                      m.pool, Append(calls, m.group), seed, bn)
        ELSE {[c |-> c, pool |-> m.pool, calls |-> Append(calls, m.group)]}
        : m \in try_match(p)}

----------------------------------------------------------------------------
(* ack_game *)

\* variant: any non-empty queue head is taken for the acknowledged id
ack_matches_any_head(game_hash, game_hash_tee) == game_hash # <<>>

\* `if game_hash == Some(game_hash_tee)`
ack_matches(game_hash, game_hash_tee) == game_hash = <<game_hash_tee>>

\* variant: the acceptance slot gets the creation tick
ack_entry_creation_tick(game_entry, bn) ==
    [game_entry EXCEPT !.state_change[2] = game_entry.state_change[1],
                       !.game_state = Accepted]

\* variant: the state assignment is left out
ack_entry_keeps_state(game_entry, bn) ==
    [game_entry EXCEPT !.state_change[2] = bn]

\* the two assignments to the retrieved game entry
ack_entry(game_entry, bn) ==
    [game_entry EXCEPT !.state_change[2] = bn, !.game_state = Accepted]

\* the loop over games from position i on; game_queue is the local copy
RECURSIVE AckLoop(_, _, _, _, _, _, _, _, _)
AckLoop(reg, qs, game_queue, cluster, games, i, games_count, log, bn) ==
    IF i > Len(games)
    THEN [reg |-> reg, queues |-> qs, count |-> games_count, log |-> log, ok |-> TRUE]
    ELSE IF ack_matches(peek(game_queue), games[i])
    THEN LET q2 == dequeue(game_queue)
             game_entry == ack_entry(game_registry(reg, games[i]), bn)
         IN AckLoop(insert(reg, games[i], game_entry), insert(qs, cluster, q2), q2,
                    cluster, games, i + 1, games_count + 1, Append(log, games[i]), bn)
    ELSE [reg |-> reg, queues |-> qs, count |-> games_count, log |-> log, ok |-> FALSE]

\* variant: the limit is one too high
batch_too_large_off_by_one(games) == Len(games) > MaxAckBatch + 1

\* `if games.len() > 100`
batch_too_large(games) == Len(games) > MaxAckBatch

\* variant: a failing batch is rolled back as a whole
ack_game_call_atomic(reg, qs, log, who, cluster, games, bn) ==
    IF Len(games) > MaxAckBatch
    THEN [reg |-> reg, queues |-> qs, log |-> log, result |-> "AckToMany", events |-> <<>>]
    ELSE IF ~contains_key(qs, cluster)
    THEN [reg |-> reg, queues |-> qs, log |-> log, result |-> "NoGameQueue", events |-> <<>>]
    ELSE LET r == AckLoop(reg, qs, game_queues(qs, cluster), cluster, games, 1, 0, log, bn) IN
         IF r.ok
         THEN [reg |-> r.reg, queues |-> r.queues, log |-> r.log, result |-> "Ok",
               events |-> << <<"GamesAccepted", who, r.count>> >>]
         ELSE [reg |-> reg, queues |-> qs, log |-> log, result |-> "AckFail",
               events |-> <<>>]

\* variant: the event is deposited before the error is returned
ack_game_call_reports_failure(reg, qs, log, who, cluster, games, bn) ==
    IF Len(games) > MaxAckBatch
    THEN [reg |-> reg, queues |-> qs, log |-> log, result |-> "AckToMany", events |-> <<>>]
    ELSE IF ~contains_key(qs, cluster)
    THEN [reg |-> reg, queues |-> qs, log |-> log, result |-> "NoGameQueue", events |-> <<>>]
    ELSE LET r == AckLoop(reg, qs, game_queues(qs, cluster), cluster, games, 1, 0, log, bn) IN
         [reg |-> r.reg, queues |-> r.queues, log |-> r.log,
          result |-> IF r.ok THEN "Ok" ELSE "AckFail",
          events |-> << <<"GamesAccepted", who, r.count>> >>]

ack_game_call(reg, qs, log, who, cluster, games, bn) ==
    IF batch_too_large(games)
    THEN [reg |-> reg, queues |-> qs, log |-> log, result |-> "AckToMany", events |-> <<>>]
    ELSE IF ~contains_key(qs, cluster)
    THEN [reg |-> reg, queues |-> qs, log |-> log, result |-> "NoGameQueue", events |-> <<>>]
    ELSE LET r == AckLoop(reg, qs, game_queues(qs, cluster), cluster, games, 1, 0, log, bn) IN
         IF r.ok
         THEN [reg |-> r.reg, queues |-> r.queues, log |-> r.log, result |-> "Ok",
               events |-> << <<"GamesAccepted", who, r.count>> >>]
         ELSE [reg |-> r.reg, queues |-> r.queues, log |-> r.log, result |-> "AckFail",
               events |-> <<>>]

----------------------------------------------------------------------------
(* drop_game, ready_game, finish_game *)

\* variant: the id is left in the queue
drop_game_call_registry_only(reg, qs, game_hash, game_engine) ==
    IF contains_key(reg, game_hash)
    THEN [reg |-> remove(reg, game_hash), queues |-> qs]
    ELSE [reg |-> reg, queues |-> qs]

\* variant: the queue is written back without the length check
drop_game_call_always_insert(reg, qs, game_hash, game_engine) ==
    IF contains_key(reg, game_hash)
    THEN [reg |-> remove(reg, game_hash),
          queues |-> insert(qs, game_engine,
                            queue_remove(game_queues(qs, game_engine), game_hash))]
    ELSE [reg |-> reg, queues |-> qs]

\* variant: a queue that the removal empties is taken out of the map
drop_game_call_prunes_queue(reg, qs, game_hash, game_engine) ==
    IF contains_key(reg, game_hash)
    THEN LET game_queue == game_queues(qs, game_engine)
             q2 == queue_remove(game_queue, game_hash)
         IN [reg |-> remove(reg, game_hash),
             queues |-> IF length(game_queue) > 0
                        THEN (IF length(q2) = 0 THEN remove(qs, game_engine)
                              ELSE insert(qs, game_engine, q2))
                        ELSE qs]
    ELSE [reg |-> reg, queues |-> qs]

drop_game_call(reg, qs, game_hash, game_engine) ==
    IF contains_key(reg, game_hash)
    THEN LET game_queue == game_queues(qs, game_engine) IN
         [reg |-> remove(reg, game_hash),
          queues |-> IF length(game_queue) > 0
                     THEN insert(qs, game_engine, queue_remove(game_queue, game_hash))
                     ELSE qs]
    ELSE [reg |-> reg, queues |-> qs]

\* variant: ready_game sets the state ack_game sets
ready_entry_accepted(game_entry, who, bn) ==
    [game_entry EXCEPT !.tee_id = who, !.state_change[3] = bn, !.game_state = Accepted]

\* variant: the state assignment is left out
ready_entry_keeps_state(game_entry, who, bn) ==
    [game_entry EXCEPT !.tee_id = who, !.state_change[3] = bn]

ready_entry(game_entry, who, bn) ==
    [game_entry EXCEPT !.tee_id = who, !.state_change[3] = bn, !.game_state = Running]

\* variant: no check that the entry exists
ready_game_call_unchecked(reg, who, game_hash, bn) ==
    [reg |-> insert(reg, game_hash, ready_entry(game_registry(reg, game_hash), who, bn)),
     result |-> "Ok", events |-> << <<"GameStateReady", who, game_hash>> >>]

ready_game_call(reg, who, game_hash, bn) ==
    IF ~contains_key(reg, game_hash)
    THEN [reg |-> reg, result |-> "NoGameEntry", events |-> <<>>]
    ELSE [reg |-> insert(reg, game_hash, ready_entry(game_registry(reg, game_hash), who, bn)),
          result |-> "Ok", events |-> << <<"GameStateReady", who, game_hash>> >>]

\* variant: a game that has a winner keeps it
finish_entry_keep_winner(game_entry, winner, bn) ==
    IF game_entry.game_state.tag = "Finished"
    THEN [game_entry EXCEPT !.state_change[4] = bn]
    ELSE [game_entry EXCEPT !.state_change[4] = bn, !.game_state = Finished(winner)]

\* variant: the tick goes into the running slot
finish_entry_running_slot(game_entry, winner, bn) ==
    [game_entry EXCEPT !.state_change[3] = bn, !.game_state = Finished(winner)]

finish_entry(game_entry, winner, bn) ==
    [game_entry EXCEPT !.state_change[4] = bn, !.game_state = Finished(winner)]

finish_game_call(reg, game_hash, winner, bn) ==
    IF ~contains_key(reg, game_hash)
    THEN [reg |-> reg, result |-> "NoGameEntry", events |-> <<>>]
    ELSE [reg |-> insert(reg, game_hash, finish_entry(game_registry(reg, game_hash), winner, bn)),
          result |-> "Ok", events |-> << <<"GameStateFinished", game_hash, winner>> >>]

----------------------------------------------------------------------------
(* Inputs *)

\* ids a caller may name: every id ever generated, and one that never was
CandIds == Range(id_log) \cup {ZeroHash}

\* batches of at most n ids
ShortBatches(n) == UNION {[1..k -> CandIds] : k \in 0..n}

\* s followed by copies of x, up to length n
Pad(s, x, n) == [i \in 1..n |-> IF i <= Len(s) THEN s[i] ELSE x]

\* batches at the size limit and one above it, starting like the queue
LongBatches ==
    {Pad(game_queues(GameQueues, TheEngine), ZeroHash, n) :
        n \in {MaxAckBatch, MaxAckBatch + 1}}

Batches(n) == ShortBatches(n) \cup LongBatches

----------------------------------------------------------------------------
(* Actions *)

Init ==
    /\ GameRegistry = EmptyMap
    /\ GameQueues = EmptyMap
    /\ Nonce = U64Zero
    /\ block_number = 0
    /\ pool = <<>>
    /\ op = "none"
    /\ result = "Ok"
    /\ events = <<>>
    /\ match_calls = <<>>
    /\ dequeued = 0
    /\ id_log = <<>>
    /\ ack_log = <<>>

\* a new block: frame_system sets the block number, then the hook runs
on_initialize(seeds, last_block) ==
    /\ block_number < last_block
    /\ \E seed \in seeds :
       \E o \in RunCycle(0, [reg |-> GameRegistry, queues |-> GameQueues, nonce |-> Nonce,
                             events |-> <<>>, id_log |-> id_log],
                         pool, <<>>, seed, block_number + 1) :
          /\ GameRegistry' = o.c.reg
          /\ GameQueues' = o.c.queues
          /\ Nonce' = o.c.nonce
          /\ events' = o.c.events
          /\ id_log' = o.c.id_log
          /\ pool' = o.pool
          /\ match_calls' = o.calls
    /\ block_number' = block_number + 1
    /\ op' = "on_initialize"
    /\ result' = "Ok"
    /\ dequeued' = 0
    /\ UNCHANGED ack_log

\* extrinsic queue; the guard bounds the number of games ever created
queue(sender, max_games) ==
    /\ block_number >= 1
    /\ Len(id_log) + Len(pool) < max_games
    /\ op' = "queue"
    /\ IF add_queue_admits(pool, sender)
       THEN /\ pool' = Append(pool, sender)
            /\ result' = "Ok"
            /\ events' = << <<"PlayerQueued", sender>> >>
       ELSE /\ pool' = pool
            /\ result' = "AlreadyQueued"
            /\ events' = <<>>
    /\ match_calls' = <<>>
    /\ dequeued' = 0
    /\ UNCHANGED <<GameRegistry, GameQueues, Nonce, block_number, id_log, ack_log>>

drop_game(game_hash, game_engine) ==
    /\ block_number >= 1
    /\ LET r == drop_game_call(GameRegistry, GameQueues, game_hash, game_engine) IN
       /\ GameRegistry' = r.reg
       /\ GameQueues' = r.queues
    /\ op' = "drop_game"
    /\ result' = "Ok"
    /\ events' = <<>>
    /\ match_calls' = <<>>
    /\ dequeued' = 0
    /\ UNCHANGED <<Nonce, block_number, pool, id_log, ack_log>>

ack_game(who, cluster, games) ==
    /\ block_number >= 1
    /\ LET r == ack_game_call(GameRegistry, GameQueues, ack_log, who, cluster, games,
                              block_number) IN
       /\ GameRegistry' = r.reg
       /\ GameQueues' = r.queues
       /\ ack_log' = r.log
       /\ dequeued' = Len(r.log) - Len(ack_log)
       /\ result' = r.result
       /\ events' = r.events
    /\ op' = "ack_game"
    /\ match_calls' = <<>>
    /\ UNCHANGED <<Nonce, block_number, pool, id_log>>

\* variant: ready_game takes the id off the queue of category (1, 1)
ready_game_dequeues(who, game_hash) ==
    /\ block_number >= 1
    /\ LET r == ready_game_call(GameRegistry, who, game_hash, block_number) IN
       /\ GameRegistry' = r.reg
       /\ result' = r.result
       /\ events' = r.events
       /\ GameQueues' = IF r.result = "Ok" /\ contains_key(GameQueues, TheEngine)
                        THEN insert(GameQueues, TheEngine,
                                    queue_remove(game_queues(GameQueues, TheEngine), game_hash))
                        ELSE GameQueues
    /\ op' = "ready_game"
    /\ match_calls' = <<>>
    /\ dequeued' = 0
    /\ UNCHANGED <<Nonce, block_number, pool, id_log, ack_log>>

ready_game(who, game_hash) ==
    /\ block_number >= 1
    /\ LET r == ready_game_call(GameRegistry, who, game_hash, block_number) IN
       /\ GameRegistry' = r.reg
       /\ result' = r.result
       /\ events' = r.events
    /\ op' = "ready_game"
    /\ match_calls' = <<>>
    /\ dequeued' = 0
    /\ UNCHANGED <<GameQueues, Nonce, block_number, pool, id_log, ack_log>>

finish_game(game_hash, winner) ==
    /\ block_number >= 1
    /\ LET r == finish_game_call(GameRegistry, game_hash, winner, block_number) IN
       /\ GameRegistry' = r.reg
       /\ result' = r.result
       /\ events' = r.events
    /\ op' = "finish_game"
    /\ match_calls' = <<>>
    /\ dequeued' = 0
    /\ UNCHANGED <<GameQueues, Nonce, block_number, pool, id_log, ack_log>>

----------------------------------------------------------------------------
(* The full specification: every operation, from genesis *)

OnInitialize == on_initialize({0}, MaxBlock)
Queue == \E sender \in Accounts : queue(sender, MaxGames)
DropGame == \E h \in CandIds, e \in Engines : drop_game(h, e)
AckGame == \E who \in Accounts, e \in Engines, games \in Batches(2) : ack_game(who, e, games)
ReadyGame == \E who \in Accounts, h \in CandIds : ready_game(who, h)
FinishGame == \E h \in CandIds, w \in Accounts : finish_game(h, w)

Next ==
    \/ OnInitialize
    \/ Queue
    \/ AckGame
    \/ ReadyGame
    \/ FinishGame
    \/ DropGame

Spec == Init /\ [][Next]_vars

----------------------------------------------------------------------------
(* The queue specifications: creation, acknowledgment and drop of up to
   MaxQueueGames games over MaxQueueBlock blocks *)

OnInitializeQ == on_initialize({0}, MaxQueueBlock)
QueueQ == \E sender \in Accounts : queue(sender, MaxQueueGames)
AckGameQ == \E e \in Engines, games \in Batches(3) : ack_game(1, e, games)

NextFifo ==
    \/ OnInitializeQ
    \/ QueueQ
    \/ AckGameQ

SpecFifo == Init /\ [][NextFifo]_vars

NextQueue ==
    \/ OnInitializeQ
    \/ QueueQ
    \/ AckGameQ
    \/ DropGame

SpecQueue == Init /\ [][NextQueue]_vars

----------------------------------------------------------------------------
(* The nonce specification: id generation from a nonce anywhere in its range *)

NonceSamples ==
    {U64Zero, <<LimbBase - 1, 0, 0, 0>>, <<LimbBase - 1, LimbBase - 1, 0, 0>>,
     <<LimbBase - 2, LimbBase - 1, LimbBase - 1, LimbBase - 1>>, U64Max}

InitNonce ==
    /\ Nonce \in NonceSamples
    /\ GameRegistry = EmptyMap
    /\ GameQueues = EmptyMap
    /\ block_number = 0
    /\ pool = <<>>
    /\ op = "none"
    /\ result = "Ok"
    /\ events = <<>>
    /\ match_calls = <<>>
    /\ dequeued = 0
    /\ id_log = <<>>
    /\ ack_log = <<>>

OnInitializeN == on_initialize(Seeds, MaxQueueBlock)

NextNonce ==
    \/ OnInitializeN
    \/ QueueQ

SpecNonce == InitNonce /\ [][NextNonce]_vars

----------------------------------------------------------------------------
(* The cycle specification: the per-block driver on pools of up to
   MaxCyclePool queued players *)

InitCycle ==
    /\ \E n \in 0..MaxCyclePool : pool = [i \in 1..n |-> i]
    /\ GameRegistry = EmptyMap
    /\ GameQueues = EmptyMap
    /\ Nonce = U64Zero
    /\ block_number = 1
    /\ op = "none"
    /\ result = "Ok"
    /\ events = <<>>
    /\ match_calls = <<>>
    /\ dequeued = 0
    /\ id_log = <<>>
    /\ ack_log = <<>>

NextCycle == OnInitialize

SpecCycle == InitCycle /\ [][NextCycle]_vars

----------------------------------------------------------------------------
(* Properties *)

IsPrefix(s, t) == Len(s) <= Len(t) /\ \A i \in 1..Len(s) : s[i] = t[i]

\* length of the longest common prefix of g and q, counted from position i
RECURSIVE CommonPrefix(_, _, _)
CommonPrefix(g, q, i) ==
    IF i > Len(g) \/ i > Len(q) THEN i - 1
    ELSE IF g[i] # q[i] THEN i - 1
    ELSE CommonPrefix(g, q, i + 1)

\* what ack_game returns and stores when called in the current state
AckOutcome(who, c, g) ==
    ack_game_call(GameRegistry, GameQueues, ack_log, who, c, g, block_number)

\* C1 (under SpecFifo, where drop_game never runs): the ids dequeued by
\* acknowledgments, in dequeue order, are the first ids created, in creation order.
C1_Fifo == IsPrefix(ack_log, id_log)

C1_Witness == Len(ack_log) = 3 /\ op = "ack_game" /\ dequeued = 1

\* C2: on a category that has a queue, a batch of at most 100 ids succeeds exactly
\* when it is a prefix of the queue; then the queue is left with the suffix after
\* the batch, every id of the batch has a record in state Accepted whose acceptance
\* slot is the current block number, and the one event is GamesAccepted(who, |ids|).
C2_AckBatch ==
    \A who \in Accounts, c \in Engines \cap DOMAIN GameQueues, g \in Batches(3) :
        Len(g) <= MaxAckBatch =>
            LET q == GameQueues[c]
                r == AckOutcome(who, c, g)
            IN /\ (r.result = "Ok") <=> IsPrefix(g, q)
               /\ r.result = "Ok" =>
                    /\ r.queues = [GameQueues EXCEPT ![c] = SubSeq(q, Len(g) + 1, Len(q))]
                    /\ \A i \in 1..Len(g) :
                          /\ g[i] \in DOMAIN r.reg
                          /\ r.reg[g[i]].game_state = Accepted
                          /\ r.reg[g[i]].state_change[2] = block_number
                    /\ r.events = << <<"GamesAccepted", who, Len(g)>> >>

\* a batch of two was acknowledged in a block later than the one that created
\* its games, and one game stays queued
C2_Witness ==
    /\ op = "ack_game" /\ result = "Ok" /\ dequeued = 2
    /\ Len(game_queues(GameQueues, TheEngine)) = 1
    /\ \E id \in DOMAIN GameRegistry :
          /\ GameRegistry[id].game_state = Accepted
          /\ GameRegistry[id].state_change[2] > GameRegistry[id].state_change[1]

\* C3: a batch of at most 100 ids that is no prefix of the queue fails with AckFail;
\* with k the number of ids matched before the first mismatch, the queue has lost
\* exactly its first k ids, these k ids have records in state Accepted with the
\* current block number in the acceptance slot, and every other record, and every
\* other queue, is as before.
C3_PrefixCommit ==
    \A who \in Accounts, c \in Engines \cap DOMAIN GameQueues, g \in Batches(3) :
        (Len(g) <= MaxAckBatch /\ ~IsPrefix(g, GameQueues[c])) =>
            LET q == GameQueues[c]
                k == CommonPrefix(g, q, 1)
                matched == {g[i] : i \in 1..k}
                r == AckOutcome(who, c, g)
            IN /\ r.result = "AckFail"
               /\ r.queues = [GameQueues EXCEPT ![c] = SubSeq(q, k + 1, Len(q))]
               /\ DOMAIN r.reg = DOMAIN GameRegistry \cup matched
               /\ \A id \in matched :
                     /\ r.reg[id].game_state = Accepted
                     /\ r.reg[id].state_change[2] = block_number
               /\ \A id \in DOMAIN GameRegistry \ matched : r.reg[id] = GameRegistry[id]

\* a batch failed after two matched ids, and the id after them is still queued
C3_Witness ==
    /\ op = "ack_game" /\ result = "AckFail" /\ dequeued = 2
    /\ Len(game_queues(GameQueues, TheEngine)) = 1

\* C4: a batch of more than 100 ids fails with AckToMany, on any category, and the
\* call changes neither the registry, nor a queue, nor the nonce.
C4_BatchTooLarge ==
    /\ [](\A who \in Accounts, c \in Engines, g \in Batches(2) :
            Len(g) > MaxAckBatch =>
                LET r == AckOutcome(who, c, g) IN
                /\ r.result = "AckToMany"
                /\ r.reg = GameRegistry
                /\ r.queues = GameQueues
                /\ r.events = <<>>)
    /\ [][(op' = "ack_game" /\ result' = "AckToMany") =>
            UNCHANGED <<GameRegistry, GameQueues, Nonce>>]_vars

C4_Witness ==
    /\ op = "ack_game" /\ result = "AckToMany"
    /\ Len(game_queues(GameQueues, TheEngine)) = 2

\* ids the step has appended to ack_log
NewlyAcked == {ack_log'[i] : i \in (Len(ack_log) + 1)..Len(ack_log')}

\* C5 as claimed: a record in state Finished that stays in the registry stays in
\* a Finished state at every step.
C5_FinishedIsTerminal ==
    [][\A id \in DOMAIN GameRegistry \cap DOMAIN GameRegistry' :
          GameRegistry[id].game_state.tag = "Finished" =>
              GameRegistry'[id].game_state.tag = "Finished"]_vars

\* C5 as amended: a record in state Finished that stays in the registry leaves the
\* Finished states only by ready_game, which makes it Running, or by an ack_game
\* that dequeues its id, which makes it Accepted.
C5_FinishedLeftByReadyOrAck ==
    [][\A id \in DOMAIN GameRegistry \cap DOMAIN GameRegistry' :
          (/\ GameRegistry[id].game_state.tag = "Finished"
           /\ GameRegistry'[id].game_state.tag # "Finished") =>
              \/ /\ op' = "ready_game"
                 /\ result' = "Ok"
                 /\ GameRegistry'[id].game_state = Running
              \/ /\ op' = "ack_game"
                 /\ id \in NewlyAcked
                 /\ GameRegistry'[id].game_state = Accepted]_vars

\* a record that was finished is now Accepted, and another one Running
C5_Witness ==
    \E a, b \in DOMAIN GameRegistry :
        /\ GameRegistry[a].state_change[4] > 0
        /\ GameRegistry[a].game_state = Accepted
        /\ GameRegistry[b].state_change[4] > 0
        /\ GameRegistry[b].game_state = Running

\* C6: on an id of the registry, ready_game by any caller succeeds and leaves the
\* record Running with that caller as executor, finish_game with any winner succeeds
\* and leaves it Finished with that winner, and a second finish_game leaves it
\* Finished with the second winner.
C6_StateOverwrite ==
    \A id \in DOMAIN GameRegistry, a \in Accounts :
        LET r == ready_game_call(GameRegistry, a, id, block_number)
            f == finish_game_call(GameRegistry, id, a, block_number)
        IN /\ r.result = "Ok"
           /\ r.reg[id].game_state = Running
           /\ r.reg[id].tee_id = a
           /\ f.result = "Ok"
           /\ f.reg[id].game_state = Finished(a)
           /\ \A b \in Accounts :
                 LET f2 == finish_game_call(f.reg, id, b, block_number) IN
                 f2.result = "Ok" /\ f2.reg[id].game_state = Finished(b)

\* ready_game has just succeeded on a record that was finished and never acknowledged
C6_Witness ==
    /\ op = "ready_game" /\ result = "Ok"
    /\ \E id \in DOMAIN GameRegistry :
          /\ events = << <<"GameStateReady", 2, id>> >>
          /\ GameRegistry[id].game_state = Running
          /\ GameRegistry[id].tee_id = 2
          /\ GameRegistry[id].state_change[4] > 0
          /\ GameRegistry[id].state_change[2] = 0

\* C7: ready_game and finish_game on an id that is no key of the registry fail with
\* NoGameEntry, deposit no event and change neither the registry, nor a queue, nor
\* the nonce.
C7_MissingSession ==
    /\ [](\A id \in CandIds \ DOMAIN GameRegistry, a \in Accounts :
            LET r == ready_game_call(GameRegistry, a, id, block_number)
                f == finish_game_call(GameRegistry, id, a, block_number)
            IN /\ r.result = "NoGameEntry" /\ r.reg = GameRegistry /\ r.events = <<>>
               /\ f.result = "NoGameEntry" /\ f.reg = GameRegistry /\ f.events = <<>>)
    /\ [][(op' \in {"ready_game", "finish_game"} /\ result' = "NoGameEntry") =>
            /\ UNCHANGED <<GameRegistry, GameQueues, Nonce>>
            /\ events' = <<>>]_vars

\* ready_game has just failed on a game that was created and dropped
C7_Witness ==
    /\ op = "ready_game" /\ result = "NoGameEntry"
    /\ Len(id_log) = 2
    /\ Cardinality(DOMAIN GameRegistry) = 1

\* q without item
Without(q, item) == SelectSeq(q, LAMBDA x : x # item)

\* C8: drop_game(id, category) succeeds and leaves the nonce; if id is in the
\* registry its entry, and only its entry, is removed, and the category's queue
\* loses id, if it held it, keeping the order of the other ids, while every other
\* queue is unchanged; if id is not in the registry nothing changes.
C8_Drop ==
    /\ [](\A h \in CandIds, e \in Engines :
            LET r == drop_game_call(GameRegistry, GameQueues, h, e)
                q == game_queues(GameQueues, e)
            IN IF h \in DOMAIN GameRegistry
               THEN /\ DOMAIN r.reg = DOMAIN GameRegistry \ {h}
                    /\ \A x \in DOMAIN r.reg : r.reg[x] = GameRegistry[x]
                    /\ IF h \in Range(q)
                       THEN r.queues = [GameQueues EXCEPT ![e] = Without(q, h)]
                       ELSE r.queues = GameQueues
               ELSE r.reg = GameRegistry /\ r.queues = GameQueues)
    /\ [][op' = "drop_game" => (result' = "Ok" /\ Nonce' = Nonce)]_vars

\* the second of three queued games has just been dropped
C8_Witness ==
    /\ op = "drop_game"
    /\ Len(id_log) = 3
    /\ game_queues(GameQueues, TheEngine) = <<id_log[1], id_log[3]>>
    /\ DOMAIN GameRegistry = {id_log[1], id_log[3]}

\* the u64 whose SCALE encoding is bytes
DecodeU64(bytes) == [j \in 1..4 |-> bytes[2 * j - 1] + 256 * bytes[2 * j]]

\* b = (a + 1) mod 2^64
IsSucc64(a, b) ==
    IF \A j \in 1..4 : a[j] = LimbBase - 1
    THEN \A j \in 1..4 : b[j] = 0
    ELSE \E k \in 1..4 :
            /\ \A j \in 1..(k - 1) : a[j] = LimbBase - 1 /\ b[j] = 0
            /\ a[k] < LimbBase - 1
            /\ b[k] = a[k] + 1
            /\ \A j \in (k + 1)..4 : b[j] = a[j]

\* C9 (under SpecNonce): the nonce hashed into each generated id is followed, modulo
\* 2^64, by the nonce hashed into the next one, and the last one by the stored
\* nonce; two successive ids generated with the same seed and submitter differ.
C9_NonceAdvances ==
    \A i \in 1..Len(id_log) :
        LET used == DecodeU64(id_log[i][3])
            next == IF i < Len(id_log) THEN DecodeU64(id_log[i + 1][3]) ELSE Nonce
        IN /\ IsSucc64(used, next)
           /\ (/\ i < Len(id_log)
               /\ id_log[i][1] = id_log[i + 1][1]
               /\ id_log[i][2] = id_log[i + 1][2]) => id_log[i] # id_log[i + 1]

\* two successive ids of one submitter under one seed, the nonce wrapping between them
C9_Witness ==
    /\ Len(id_log) = 2
    /\ id_log[1][1] = id_log[2][1]
    /\ id_log[1][2] = id_log[2][2]
    /\ DecodeU64(id_log[1][3]) = U64Max
    /\ DecodeU64(id_log[2][3]) = U64Zero
    /\ Nonce = <<1, 0, 0, 0>>

\* number of non-empty groups among the answers
RECURSIVE Matches(_)
Matches(calls) ==
    IF calls = <<>> THEN 0
    ELSE (IF Head(calls) # <<>> THEN 1 ELSE 0) + Matches(Tail(calls))

\* C10 (under SpecCycle): on_initialize calls try_match at least once and at most
\* 10 times, every answer before the last is a non-empty group, the last is the
\* empty group unless it is the 10th, and the block creates one game per non-empty
\* answer: that many new registry entries, ids and GameQueued events, at most 10.
C10_CycleBound ==
    /\ [](op = "on_initialize" =>
            LET n == Len(match_calls) IN
            /\ 1 <= n /\ n <= 10
            /\ \A i \in 1..(n - 1) : match_calls[i] # <<>>
            /\ (match_calls[n] = <<>> \/ n = 10)
            /\ Len(events) = Matches(match_calls)
            /\ Len(events) <= 10)
    /\ [][op' = "on_initialize" =>
            /\ Cardinality(DOMAIN GameRegistry') =
                   Cardinality(DOMAIN GameRegistry) + Matches(match_calls')
            /\ Len(id_log') = Len(id_log) + Matches(match_calls')]_vars

\* ten games were created in one block and players are left in the pool
C10_Witness ==
    /\ op = "on_initialize"
    /\ Len(match_calls) = 10
    /\ match_calls[10] # <<>>
    /\ Cardinality(DOMAIN GameRegistry) = 10
    /\ Len(pool) > 0

\* C11 as claimed: a record whose executor is set is Running or Finished, and a
\* record that is Waiting or Accepted has no executor.
C11_ExecutorOnlyWhenRunning ==
    \A id \in DOMAIN GameRegistry :
        LET e == GameRegistry[id] IN
        /\ e.tee_id # NoAccount => e.game_state.tag \in {"Running", "Finished"}
        /\ e.game_state.tag \in {"Waiting", "Accepted"} => e.tee_id = NoAccount

\* C11 as amended: the executor of a record is set exactly when ready_game has
\* succeeded on it (its running slot is set), and only ready_game changes it; such
\* a record is Running, Finished or Accepted, and when it is Accepted its id was
\* dequeued by ack_game; a Waiting record has no executor.
C11_ExecutorSetByReady ==
    /\ [](\A id \in DOMAIN GameRegistry :
            LET e == GameRegistry[id] IN
            /\ (e.tee_id # NoAccount) <=> (e.state_change[3] # 0)
            /\ e.tee_id # NoAccount =>
                  e.game_state.tag \in {"Running", "Finished", "Accepted"}
            /\ (e.tee_id # NoAccount /\ e.game_state = Accepted) => id \in Range(ack_log)
            /\ e.game_state = Waiting => e.tee_id = NoAccount)
    /\ [][\A id \in DOMAIN GameRegistry \cap DOMAIN GameRegistry' :
            GameRegistry'[id].tee_id # GameRegistry[id].tee_id =>
                /\ op' = "ready_game"
                /\ result' = "Ok"
                /\ \E who \in Accounts :
                      /\ events' = << <<"GameStateReady", who, id>> >>
                      /\ GameRegistry'[id].tee_id = who]_vars

\* ack_game has just accepted a record that has an executor
C11_Witness ==
    /\ op = "ack_game" /\ result = "Ok"
    /\ \E id \in DOMAIN GameRegistry :
          /\ GameRegistry[id].game_state = Accepted
          /\ GameRegistry[id].tee_id # NoAccount
          /\ id = ack_log[Len(ack_log)]

\* C12 as claimed: a batch of at most 100 ids that fails after k matched ids fails
\* with AckFail and reports the count k to observers (GamesAccepted(who, k)); with
\* queue = [A, B] and batch [A, C] the reported count is 1.
C12_FailingBatchReportsCount ==
    \A who \in Accounts, c \in Engines \cap DOMAIN GameQueues, g \in Batches(2) :
        (Len(g) <= MaxAckBatch /\ ~IsPrefix(g, GameQueues[c])) =>
            LET k == CommonPrefix(g, GameQueues[c], 1)
                r == AckOutcome(who, c, g)
            IN /\ r.result = "AckFail"
               /\ r.events = << <<"GamesAccepted", who, k>> >>

\* C12 as amended: a batch of at most 100 ids that fails after k matched ids fails
\* with AckFail, has dequeued exactly these k ids and reports nothing: no event is
\* deposited; ack_game deposits GamesAccepted exactly when it succeeds.
C12_FailingBatchReportsNothing ==
    /\ [](\A who \in Accounts, c \in Engines \cap DOMAIN GameQueues, g \in Batches(2) :
            (Len(g) <= MaxAckBatch /\ ~IsPrefix(g, GameQueues[c])) =>
                LET k == CommonPrefix(g, GameQueues[c], 1)
                    r == AckOutcome(who, c, g)
                IN /\ r.result = "AckFail"
                   /\ r.events = <<>>
                   /\ Len(r.log) = Len(ack_log) + k
                   /\ Len(r.queues[c]) = Len(GameQueues[c]) - k)
    /\ [][op' = "ack_game" =>
            /\ result' = "AckFail" => events' = <<>>
            /\ result' = "Ok" =>
                  \E who \in Accounts : events' = << <<"GamesAccepted", who, dequeued'>> >>]_vars

\* with two games queued, a batch has just failed after its first id: one game was
\* dequeued, the other is still queued, and no event was deposited
C12_Witness ==
    /\ op = "ack_game" /\ result = "AckFail" /\ dequeued = 1
    /\ events = <<>>
    /\ Len(id_log) = 2
    /\ game_queues(GameQueues, TheEngine) = <<id_log[2]>>
    /\ GameRegistry[id_log[1]].game_state = Accepted

\* the non-empty groups among the answers, in order
NonEmptyGroups(calls) == SelectSeq(calls, LAMBDA g : g # <<>>)

\* C13 (under SpecQueue): a block whose try_match calls return the non-empty groups
\* g1..gn creates exactly n records, the j-th under an id that was neither a key of
\* the registry nor ever generated before, with state Waiting, players gj in order,
\* no executor, category (1, 1) and state_change = (current block, 0, 0, 0); the n
\* ids are appended in order at the tail of the category's queue, which is created
\* if absent and keeps its earlier ids in order; every other record is unchanged
\* and one GameQueued event is deposited per record.
C13_SessionCreation ==
    [][op' = "on_initialize" =>
        LET groups == NonEmptyGroups(match_calls')
            n == Len(groups)
            new == [j \in 1..n |-> id_log'[Len(id_log) + j]]
        IN /\ Len(id_log') = Len(id_log) + n
           /\ \A j \in 1..n :
                 /\ new[j] \notin DOMAIN GameRegistry \cup Range(id_log)
                 /\ \A i \in 1..(j - 1) : new[i] # new[j]
                 /\ GameRegistry'[new[j]] =
                        [id |-> new[j], tee_id |-> NoAccount, game_engine |-> TheEngine,
                         players |-> groups[j], game_state |-> Waiting,
                         state_change |-> <<block_number', 0, 0, 0>>]
           /\ DOMAIN GameRegistry' = DOMAIN GameRegistry \cup Range(new)
           /\ \A id \in DOMAIN GameRegistry : GameRegistry'[id] = GameRegistry[id]
           /\ IF n = 0 THEN GameQueues' = GameQueues
              ELSE /\ DOMAIN GameQueues' = DOMAIN GameQueues \cup {TheEngine}
                   /\ GameQueues'[TheEngine] = game_queues(GameQueues, TheEngine) \o new
                   /\ \A c \in DOMAIN GameQueues \ {TheEngine} : GameQueues'[c] = GameQueues[c]
           /\ events' = [j \in 1..n |-> <<"GameQueued", TheEngine, new[j]>>]]_vars

\* block 3 has just created a game of two players behind a game queued in block 2
C13_Witness ==
    /\ op = "on_initialize" /\ block_number = 3 /\ Len(events) = 1
    /\ LET q == game_queues(GameQueues, TheEngine) IN
       /\ Len(q) = 2
       /\ q[1] \in DOMAIN GameRegistry
       /\ GameRegistry[q[1]].state_change[1] = 2
       /\ GameRegistry[q[2]].state_change[1] = 3
       /\ GameRegistry[q[2]].players = <<2, 1>>

\* a session has been created for category c: every session is created by
\* on_initialize, for category (1, 1)
EverCreated(c) == c = TheEngine /\ id_log # <<>>

\* category c is named by a GameQueued event of evs
QueuedEventFor(evs, c) ==
    \E i \in 1..Len(evs) : evs[i][1] = "GameQueued" /\ evs[i][2] = c

\* C14: ack_game with at most 100 ids fails with NoGameQueue exactly when no session
\* was ever created for the category, and then changes nothing; a category gets
\* its queue in the block that creates its first session and keeps it at every
\* later step; on a queue that exists and is empty a non-empty batch fails with
\* AckFail and the empty batch succeeds with count 0, both without a change of
\* the registry or of a queue.
C14_MissingQueue ==
    /\ [](\A who \in Accounts, c \in Engines, g \in Batches(2) :
            Len(g) <= MaxAckBatch =>
                LET r == AckOutcome(who, c, g) IN
                /\ (r.result = "NoGameQueue") <=> ~EverCreated(c)
                /\ r.result = "NoGameQueue" =>
                      r.reg = GameRegistry /\ r.queues = GameQueues /\ r.events = <<>>
                /\ (EverCreated(c) /\ game_queues(GameQueues, c) = <<>>) =>
                      /\ r.reg = GameRegistry /\ r.queues = GameQueues
                      /\ IF g = <<>>
                         THEN /\ r.result = "Ok"
                              /\ r.events = << <<"GamesAccepted", who, 0>> >>
                         ELSE r.result = "AckFail")
    /\ [][\A c \in Engines :
            (c \in DOMAIN GameQueues') <=>
                \/ c \in DOMAIN GameQueues
                \/ op' = "on_initialize" /\ QueuedEventFor(events', c)]_vars

\* of two games one was acknowledged and one dropped, and a batch has just failed
\* with AckFail on the emptied queue
C14_Witness ==
    /\ op = "ack_game" /\ result = "AckFail" /\ dequeued = 0
    /\ Len(id_log) = 2 /\ Len(ack_log) = 1
    /\ Cardinality(DOMAIN GameRegistry) = 1
    /\ TheEngine \in DOMAIN GameQueues
    /\ GameQueues[TheEngine] = <<>>

\* C15: called in the current or in the next block, on any record, ready_game
\* writes the block number into the running slot and finish_game into the finish
\* slot, and ack_game into the acceptance slot of the ids it dequeues, and each
\* leaves the three other slots as they are; at every step a slot of a record
\* changes only by its own operation succeeding on that id, and the creation slot
\* of a record that stays in the registry never changes; a record with a non-zero
\* acceptance slot was dequeued by ack_game.
C15_Timestamps ==
    /\ [](\A bn \in {block_number, block_number + 1} :
            /\ \A id \in DOMAIN GameRegistry, a \in Accounts :
                  LET sc == GameRegistry[id].state_change
                      r == ready_game_call(GameRegistry, a, id, bn)
                      f == finish_game_call(GameRegistry, id, a, bn)
                  IN /\ r.reg[id].state_change = [sc EXCEPT ![3] = bn]
                     /\ f.reg[id].state_change = [sc EXCEPT ![4] = bn]
            /\ \A c \in Engines \cap DOMAIN GameQueues, g \in Batches(2) :
                  Len(g) <= MaxAckBatch =>
                      LET r == ack_game_call(GameRegistry, GameQueues, ack_log, 1, c, g, bn) IN
                      \A i \in 1..CommonPrefix(g, GameQueues[c], 1) :
                          r.reg[g[i]].state_change =
                              [game_registry(GameRegistry, g[i]).state_change EXCEPT ![2] = bn])
    /\ [](\A id \in DOMAIN GameRegistry :
            GameRegistry[id].state_change[2] # 0 => id \in Range(ack_log))
    /\ [][\A id \in DOMAIN GameRegistry' :
            LET old == game_registry(GameRegistry, id).state_change
                new == GameRegistry'[id].state_change
            IN /\ new[2] # old[2] => op' = "ack_game" /\ id \in NewlyAcked
               /\ new[3] # old[3] =>
                     /\ op' = "ready_game" /\ result' = "Ok"
                     /\ \E who \in Accounts : events' = << <<"GameStateReady", who, id>> >>
               /\ new[4] # old[4] =>
                     /\ op' = "finish_game" /\ result' = "Ok"
                     /\ \E w \in Accounts : events' = << <<"GameStateFinished", id, w>> >>
               /\ id \in DOMAIN GameRegistry => new[1] = old[1]]_vars

\* finish_game has just completed a record that was created, acknowledged and run
C15_Witness ==
    /\ op = "finish_game" /\ result = "Ok"
    /\ \E id \in DOMAIN GameRegistry :
          /\ \A k \in 1..4 : GameRegistry[id].state_change[k] # 0
          /\ GameRegistry[id].game_state.tag = "Finished"
          /\ \E w \in Accounts : events = << <<"GameStateFinished", id, w>> >>

\* C16: every id held in the queue of a category is a key of the registry, and the
\* record stored under it has that category as its game_engine.
C16_QueueRegistryConsistent ==
    \A c \in DOMAIN GameQueues :
        \A id \in Range(GameQueues[c]) :
            /\ id \in DOMAIN GameRegistry
            /\ GameRegistry[id].game_engine = c

\* C17: every record of the registry is one that session creation built: its id
\* field is the key it is stored under, it has at least one player and its
\* creation slot is set.
C17_WellFormedRecords ==
    \A id \in DOMAIN GameRegistry :
        /\ GameRegistry[id].id = id
        /\ GameRegistry[id].players # <<>>
        /\ GameRegistry[id].state_change[1] # 0

\* C18: an id that was generated and is no key of the registry (drop_game has
\* removed it) is no key of the registry after any step, and ready_game and
\* finish_game on it fail with NoGameEntry.
C18_DropIsFinal ==
    /\ [](\A id \in Range(id_log) \ DOMAIN GameRegistry, a \in Accounts :
            /\ ready_game_call(GameRegistry, a, id, block_number).result = "NoGameEntry"
            /\ finish_game_call(GameRegistry, id, a, block_number).result = "NoGameEntry")
    /\ [][\A id \in Range(id_log) \ DOMAIN GameRegistry :
            id \notin DOMAIN GameRegistry']_vars

\* ids held in some queue
QueuedIds == UNION {Range(GameQueues[c]) : c \in DOMAIN GameQueues}

\* C19 as claimed: every queued id has a record in state Waiting, every record in
\* state Waiting is held in the queue of its category, and a record leaves state
\* Waiting only by an ack_game that dequeues it or by drop_game.
C19_QueuedIffWaiting ==
    /\ [](\A id \in QueuedIds :
            id \in DOMAIN GameRegistry /\ GameRegistry[id].game_state = Waiting)
    /\ [](\A id \in DOMAIN GameRegistry :
            GameRegistry[id].game_state = Waiting =>
                id \in Range(game_queues(GameQueues, GameRegistry[id].game_engine)))
    /\ [][\A id \in DOMAIN GameRegistry :
            (/\ GameRegistry[id].game_state = Waiting
             /\ (id \in DOMAIN GameRegistry' => GameRegistry'[id].game_state # Waiting)) =>
                \/ op' = "ack_game" /\ id \in NewlyAcked
                \/ op' = "drop_game"]_vars

\* C19 as amended: every record in state Waiting is held in the queue of its
\* category; a queued id has a record in state Waiting, Running or Finished, or no
\* record; a record leaves state Waiting by an ack_game that dequeues it (Accepted),
\* by drop_game (removed), or by ready_game (Running) or finish_game (Finished),
\* which leave every queue as it is.
C19_WaitingIsQueued ==
    /\ [](\A id \in DOMAIN GameRegistry :
            GameRegistry[id].game_state = Waiting =>
                id \in Range(game_queues(GameQueues, GameRegistry[id].game_engine)))
    /\ [](\A id \in QueuedIds \cap DOMAIN GameRegistry :
            GameRegistry[id].game_state.tag \in {"Waiting", "Running", "Finished"})
    /\ [][\A id \in DOMAIN GameRegistry :
            (/\ GameRegistry[id].game_state = Waiting
             /\ (id \in DOMAIN GameRegistry' => GameRegistry'[id].game_state # Waiting)) =>
                \/ /\ op' = "ack_game" /\ id \in NewlyAcked
                   /\ GameRegistry'[id].game_state = Accepted
                \/ op' = "drop_game" /\ id \notin DOMAIN GameRegistry'
                \/ /\ op' = "ready_game"
                   /\ GameRegistry'[id].game_state = Running
                   /\ GameQueues' = GameQueues
                \/ /\ op' = "finish_game"
                   /\ GameRegistry'[id].game_state.tag = "Finished"
                   /\ GameQueues' = GameQueues]_vars

\* ready_game has just made Running a record whose id is still queued
C19_Witness ==
    /\ op = "ready_game" /\ result = "Ok"
    /\ \E id \in QueuedIds \cap DOMAIN GameRegistry :
          /\ GameRegistry[id].game_state = Running
          /\ GameRegistry[id].state_change[2] = 0
          /\ \E who \in Accounts : events = << <<"GameStateReady", who, id>> >>

\* categories a caller may name
AllEngines == Engines \cup {DefaultEngine}

\* C20: category (1, 1) is the only key of the queues map and the game_engine of
\* every record that session creation built (stored under its own id), and every
\* GameQueued event names it; ack_game for any other category, with any batch,
\* fails with AckToMany or NoGameQueue and changes neither the registry, nor a
\* queue, nor the nonce.
C20_SingleCategory ==
    /\ [](DOMAIN GameQueues \subseteq {TheEngine})
    /\ [](\A id \in DOMAIN GameRegistry :
            GameRegistry[id].id = id => GameRegistry[id].game_engine = TheEngine)
    /\ [](\A who \in Accounts, c \in AllEngines \ {TheEngine}, g \in Batches(2) :
            LET r == AckOutcome(who, c, g) IN
            /\ r.result = IF Len(g) > MaxAckBatch THEN "AckToMany" ELSE "NoGameQueue"
            /\ r.reg = GameRegistry /\ r.queues = GameQueues /\ r.events = <<>>)
    /\ [][/\ \A i \in 1..Len(events') :
                events'[i][1] = "GameQueued" => events'[i][2] = TheEngine
          /\ (op' = "ack_game" /\ result' \in {"AckToMany", "NoGameQueue"}) =>
                UNCHANGED <<GameRegistry, GameQueues, Nonce>>]_vars

\* of two games one was dropped under another category and is still queued, and
\* ack_game for another category has just failed with NoGameQueue
C20_Witness ==
    /\ op = "ack_game" /\ result = "NoGameQueue"
    /\ Len(id_log) = 2
    /\ Cardinality(DOMAIN GameRegistry) = 1
    /\ DOMAIN GameQueues = {TheEngine}
    /\ Len(GameQueues[TheEngine]) = 2

\* C21: ready_game and finish_game on any id leave every registry entry other than
\* that of the id as it is and add or remove no key, and the step leaves every
\* queue and the nonce unchanged; queue, drop_game and ack_game leave the nonce
\* unchanged; ack_game, with any batch on any category, removes no key and leaves
\* every registry entry other than those of the ids it dequeues as it is.
C21_Frame ==
    /\ [](\A id \in CandIds, a \in Accounts :
            LET r == ready_game_call(GameRegistry, a, id, block_number)
                f == finish_game_call(GameRegistry, id, a, block_number)
            IN /\ DOMAIN r.reg = DOMAIN GameRegistry
               /\ DOMAIN f.reg = DOMAIN GameRegistry
               /\ \A x \in DOMAIN GameRegistry \ {id} :
                     r.reg[x] = GameRegistry[x] /\ f.reg[x] = GameRegistry[x])
    /\ [](\A who \in Accounts, c \in Engines, g \in Batches(2) :
            LET r == AckOutcome(who, c, g)
                acked == {r.log[i] : i \in (Len(ack_log) + 1)..Len(r.log)}
            IN /\ DOMAIN r.reg = DOMAIN GameRegistry \cup acked
               /\ \A x \in DOMAIN GameRegistry \ acked : r.reg[x] = GameRegistry[x])
    /\ [][/\ op' \in {"ready_game", "finish_game"} =>
                /\ UNCHANGED <<GameQueues, Nonce>>
                /\ DOMAIN GameRegistry' = DOMAIN GameRegistry
                /\ \A x, y \in DOMAIN GameRegistry :
                      (GameRegistry'[x] # GameRegistry[x] /\ GameRegistry'[y] # GameRegistry[y])
                          => x = y
          /\ op' \in {"queue", "drop_game", "ack_game"} => Nonce' = Nonce
          /\ op' = "queue" => UNCHANGED <<GameRegistry, GameQueues>>
          /\ op' = "ack_game" =>
                \A x \in DOMAIN GameRegistry \ NewlyAcked :
                    x \in DOMAIN GameRegistry' /\ GameRegistry'[x] = GameRegistry[x]]_vars

\* finish_game has just finished one of two queued games: both are still queued,
\* the other one is still Waiting, and the nonce is the count of the games created
C21_Witness ==
    /\ op = "finish_game" /\ result = "Ok"
    /\ Len(id_log) = 2
    /\ game_queues(GameQueues, TheEngine) = id_log
    /\ DOMAIN GameRegistry = Range(id_log)
    /\ GameRegistry[id_log[1]].game_state.tag = "Finished"
    /\ GameRegistry[id_log[2]].game_state = Waiting
    /\ Nonce = <<2, 0, 0, 0>>

====
